---- MODULE Spec2Model ----
(***************************************************************************)
(* A model of src/src/activity_monitor.py: the ActivityMonitor scan loop   *)
(* (run_monitoring_loop, monitor_whale_activity, the three store           *)
(* operations) and the pure detector detect_coordination_patterns.         *)
(*                                                                         *)
(* Time is in whole seconds.  USD amounts are whole dollars, for which     *)
(* float(usd) is exact.  A confidence is a rational <<num, den>> in lowest *)
(* terms.  A Python dict is a sequence of entries in insertion order.      *)
(***************************************************************************)
EXTENDS Integers, Sequences, FiniteSets, TLC

(* ------------------------------------------------------------------ *)
(* Program constants (activity_monitor.py lines 31-48)                 *)
(* ------------------------------------------------------------------ *)
SCAN_INTERVAL == 60
COORDINATION_THRESHOLD == 3
TIME_WINDOW_MINUTES == 15
WHALE_THRESHOLD == 1000
rapid_buys == 5
rapid_sells == 4

(* ------------------------------------------------------------------ *)
(* Bounds of the model                                                 *)
(* ------------------------------------------------------------------ *)
\* Longest activity list enumerated element by element.
MaxLen == 2
\* Number of runs (blocks of like activities) in a generated list.
MaxRuns == 2
\* Longest run.
MaxRun == 5
\* Number of scans the loop is followed for.
MaxScans == 3
\* Longest list of the correlation analysis enumerated element by element.
MaxCorrLen == 4
\* Most activities of one wallet close to the other wallet's, and most far
\* from them, in a generated two-wallet list.
MaxNear == 8
MaxFar == 3
\* Number of wallets in a generated several-wallet list.
MaxWallets == 3

VARIABLES
    pc,                 \* position of the process
    scan_count,         \* self.scan_count
    total_alerts,       \* self.total_alerts
    whale_transactions, \* the store's table whale_transactions
    pump_dump_alerts,   \* the store's table pump_dump_alerts
    now,                \* the wall clock, seconds
    conn_open,          \* number of store connections currently open
    recent_activities,  \* the activity list under analysis
    token_activities,   \* detect_coordination_patterns' token -> bucket -> list
    coordination_alerts,\* the detector's result
    wallet_correlations,\* analyze_wallet_correlations' result
    whale_activity_history, \* self.whale_activity_history
    token_price_history,    \* self.token_price_history
    alert_idx,          \* position of the for-loop over coordination_alerts
    alerts_generated,   \* monitor_whale_activity's local counter
    exc,                \* the exception raised in the current iteration, if any
    hist                \* history: what happened in the current scan

vars == <<pc, scan_count, total_alerts, whale_transactions, pump_dump_alerts,
          now, conn_open, recent_activities, token_activities,
          coordination_alerts, wallet_correlations, whale_activity_history,
          token_price_history, alert_idx, alerts_generated, exc, hist>>

(* ------------------------------------------------------------------ *)
(* Values                                                              *)
(* ------------------------------------------------------------------ *)
\* Wallet addresses are numbered; token symbols are two of the source's.
Tokens == {"UNI", "LINK"}
ActivityTypes == {"buy", "sell", "transfer"}

\* One row of whale_transactions as the recent-activity query returns it
\* (amount_tokens is unpacked and never read, and is left out).
Row(w, tok, ty, usd, ts, id) ==
    [wallet |-> w, token |-> tok, type |-> ty, usd |-> usd,
     timestamp |-> ts, tx_id |-> id]

RECURSIVE GCD(_, _)
GCD(a, b) == IF b = 0 THEN a ELSE GCD(b, a % b)

\* The quotient n / d.
Rat(n, d) == LET g == GCD(n, d) IN <<n \div g, d \div g>>

RatLess(a, b) == a[1] * b[2] < b[1] * a[2]

\* Python's min(a, b): the first argument unless the second is smaller.
PyMin(a, b) == IF RatLess(b, a) THEN b ELSE a

One == <<1, 1>>

\* float(usd), exact on whole-dollar amounts.
ToFloat(usd) == usd

(* ------------------------------------------------------------------ *)
(* detect_coordination_patterns                                        *)
(* ------------------------------------------------------------------ *)
\* Variant: the bucket key keeps the seconds.
TimeBucketNoTrunc(timestamp) == timestamp
\* timestamp.replace(second=0, microsecond=0)
TimeBucket(timestamp) == timestamp - (timestamp % 60)

\* The dict stored in a bucket for one activity.
BucketEntry(activity) ==
    [wallet |-> activity.wallet, type |-> activity.type,
     usd_amount |-> ToFloat(activity.usd), timestamp |-> activity.timestamp,
     tx_id |-> activity.tx_id]

\* Position of key k in an insertion-ordered dict, 0 when absent.
KeyIndex(dict, k) ==
    IF \E i \in 1..Len(dict) : dict[i].key = k
    THEN CHOOSE i \in 1..Len(dict) : dict[i].key = k
    ELSE 0

\* dict[k].append(v) on a defaultdict(list)
DictAppend(dict, k, v) ==
    LET i == KeyIndex(dict, k) IN
    IF i = 0 THEN Append(dict, [key |-> k, val |-> <<v>>])
    ELSE [dict EXCEPT ![i].val = Append(@, v)]

\* token_activities[token][time_bucket].append({...})
AddActivity(ta, activity) ==
    LET i == KeyIndex(ta, activity.token)
        tb == TimeBucket(activity.timestamp)
        e == BucketEntry(activity)
    IN IF i = 0
       THEN Append(ta, [key |-> activity.token,
                        val |-> DictAppend(<<>>, tb, e)])
       ELSE [ta EXCEPT ![i].val = DictAppend(@, tb, e)]

\* The grouping loop over the activities, in list order.
GroupActivities(activities) ==
    LET f[i \in 0..Len(activities)] ==
            IF i = 0 THEN <<>> ELSE AddActivity(f[i - 1], activities[i])
    IN f[Len(activities)]

IsBuyLike(a) == a.type \in {"buy", "transfer"}
IsSell(a) == a.type = "sell"

SumUsd(s) ==
    LET f[i \in 0..Len(s)] ==
            IF i = 0 THEN 0 ELSE f[i - 1] + s[i].usd_amount
    IN f[Len(s)]

UniqueWallets(s) == Cardinality({s[i].wallet : i \in 1..Len(s)})

\* Variant: the ratio without the min.
ConfidenceUnclamped(unique_wallets, threshold) == Rat(unique_wallets, threshold)
\* min(unique_wallets / threshold, 1.0)
Confidence(unique_wallets, threshold) ==
    PyMin(Rat(unique_wallets, threshold), One)

MkAlert(kind, token, time_bucket, acts, threshold) ==
    [type |-> kind, token |-> token, time |-> time_bucket,
     whale_count |-> UniqueWallets(acts),
     total_volume |-> SumUsd(acts),
     activities |-> acts,
     confidence |-> Confidence(UniqueWallets(acts), threshold)]

\* Variant: more than rapid_buys are asked for.
PumpTestStrict(buy_activities) == Len(buy_activities) > rapid_buys
\* len(buy_activities) >= PUMP_INDICATORS['rapid_buys']
PumpTest(buy_activities) == Len(buy_activities) >= rapid_buys
\* Variant: the dump test uses the coordination threshold.
DumpTestLowThreshold(buy_activities, sell_activities) ==
    Len(sell_activities) >= COORDINATION_THRESHOLD
\* Variant: the dump test is an elif of the pump test.
DumpTestWhenNoPump(buy_activities, sell_activities) ==
    /\ ~PumpTest(buy_activities)
    /\ Len(sell_activities) >= rapid_sells
\* len(sell_activities) >= DUMP_INDICATORS['rapid_sells']
DumpTest(buy_activities, sell_activities) ==
    Len(sell_activities) >= rapid_sells

\* Variant: a gate that asks for more activities than the dump test does.
CoordinationGateAboveDump(activities_in_bucket) ==
    Len(activities_in_bucket) > rapid_sells
\* if len(activities) >= COORDINATION_THRESHOLD
CoordinationGate(activities_in_bucket) ==
    Len(activities_in_bucket) >= COORDINATION_THRESHOLD

\* The body of the loop over one (token, time_bucket) entry.
BucketAlerts(token, time_bucket, activities_in_bucket) ==
    IF CoordinationGate(activities_in_bucket)
    THEN LET buy_activities == SelectSeq(activities_in_bucket, IsBuyLike)
             sell_activities == SelectSeq(activities_in_bucket, IsSell)
         IN (IF PumpTest(buy_activities)
             THEN <<MkAlert("POTENTIAL_PUMP", token, time_bucket,
                            buy_activities, rapid_buys)>>
             ELSE <<>>)
            \o
            (IF DumpTest(buy_activities, sell_activities)
             THEN <<MkAlert("POTENTIAL_DUMP", token, time_bucket,
                            sell_activities, rapid_sells)>>
             ELSE <<>>)
    ELSE <<>>

TokenAlerts(token, time_buckets) ==
    LET f[i \in 0..Len(time_buckets)] ==
            IF i = 0 THEN <<>>
            ELSE f[i - 1] \o BucketAlerts(token, time_buckets[i].key,
                                          time_buckets[i].val)
    IN f[Len(time_buckets)]

AlertsOf(ta) ==
    LET f[i \in 0..Len(ta)] ==
            IF i = 0 THEN <<>>
            ELSE f[i - 1] \o TokenAlerts(ta[i].key, ta[i].val)
    IN f[Len(ta)]

detect_coordination_patterns(activities) ==
    IF activities = <<>> THEN <<>> ELSE AlertsOf(GroupActivities(activities))

(* ------------------------------------------------------------------ *)
(* analyze_wallet_correlations                                         *)
(* ------------------------------------------------------------------ *)
\* wallet_activities[wallet].append(activity), over the list in order.
WalletActivities(activities) ==
    LET f[i \in 0..Len(activities)] ==
            IF i = 0 THEN <<>>
            ELSE DictAppend(f[i - 1], activities[i].wallet, activities[i])
    IN f[Len(activities)]

\* set(activity[1] for activity in activities_x)
TokensOf(acts) == {acts[i].token : i \in 1..Len(acts)}

\* Variant: one shared token is enough.
CommonEnoughOne(common_tokens) == Cardinality(common_tokens) >= 1
\* len(common_tokens) >= 2
CommonEnough(common_tokens) == Cardinality(common_tokens) >= 2

\* [activity[5] for activity in activities_x if activity[1] in common_tokens]
TimesOn(acts, common_tokens) ==
    LET f[i \in 0..Len(acts)] ==
            IF i = 0 THEN <<>>
            ELSE IF acts[i].token \in common_tokens
                 THEN Append(f[i - 1], acts[i].timestamp)
                 ELSE f[i - 1]
    IN f[Len(acts)]

Abs(x) == IF x < 0 THEN 0 - x ELSE x

\* Variant: a difference of exactly 300 seconds does not match.
WithinWindowStrict(time_a, time_b) == Abs(time_a - time_b) < 300
\* abs((time_a - time_b).total_seconds()) <= 300
WithinWindow(time_a, time_b) == Abs(time_a - time_b) <= 300

\* The two nested loops that count time_correlations.
TimeCorrelations(times_a, times_b) ==
    LET inner[p \in 1..Len(times_a)] ==
            LET g[q \in 0..Len(times_b)] ==
                    IF q = 0 THEN 0
                    ELSE g[q - 1] + (IF WithinWindow(times_a[p], times_b[q])
                                     THEN 1 ELSE 0)
            IN g[Len(times_b)]
        f[p \in 0..Len(times_a)] ==
            IF p = 0 THEN 0 ELSE f[p - 1] + inner[p]
    IN f[Len(times_a)]

Max(a, b) == IF a > b THEN a ELSE b

\* Variant: the quotient without the min.
CorrelationScoreUnclamped(time_correlations, times_a, times_b) ==
    Rat(time_correlations, Max(Len(times_a), Len(times_b)))
\* Variant: the quotient over wallet_a's activities only.
CorrelationScoreOverA(time_correlations, times_a, times_b) ==
    PyMin(Rat(time_correlations, Len(times_a)), One)
\* min(time_correlations / max(len(times_a), len(times_b)), 1.0)
CorrelationScore(time_correlations, times_a, times_b) ==
    PyMin(Rat(time_correlations, Max(Len(times_a), Len(times_b))), One)

\* Variant: a score of 0.7 is already HIGH.
SuspicionLevelInclusive(correlation_score) ==
    IF ~RatLess(correlation_score, <<7, 10>>) THEN "HIGH" ELSE "MEDIUM"
\* 'HIGH' if correlation_score > 0.7 else 'MEDIUM'
SuspicionLevel(correlation_score) ==
    IF RatLess(<<7, 10>>, correlation_score) THEN "HIGH" ELSE "MEDIUM"

\* The body of the pair loop: the records appended for (wallet_a, wallet_b).
PairCorrelation(wallet_a, wallet_b, activities_a, activities_b) ==
    LET common_tokens == TokensOf(activities_a) \cap TokensOf(activities_b)
        times_a == TimesOn(activities_a, common_tokens)
        times_b == TimesOn(activities_b, common_tokens)
        time_correlations == TimeCorrelations(times_a, times_b)
        correlation_score ==
            CorrelationScore(time_correlations, times_a, times_b)
    IN IF CommonEnough(common_tokens) /\ time_correlations >= 2
       THEN <<[wallet_a |-> wallet_a,
               wallet_b |-> wallet_b,
               common_tokens |-> common_tokens,
               time_correlations |-> time_correlations,
               correlation_score |-> correlation_score,
               suspicion_level |-> SuspicionLevel(correlation_score)]>>
       ELSE <<>>

\* for i in range(len(wallet_list)): for j in range(i + 1, len(wallet_list))
PairLoop(wa) ==
    LET row[i \in 1..Len(wa)] ==
            LET g[j \in i..Len(wa)] ==
                    IF j = i THEN <<>>
                    ELSE g[j - 1] \o PairCorrelation(wa[i].key, wa[j].key,
                                                     wa[i].val, wa[j].val)
            IN g[Len(wa)]
        f[i \in 0..Len(wa)] ==
            IF i = 0 THEN <<>> ELSE f[i - 1] \o row[i]
    IN f[Len(wa)]

analyze_wallet_correlations(activities) ==
    IF Len(activities) < 2 THEN <<>>
    ELSE PairLoop(WalletActivities(activities))

(* ------------------------------------------------------------------ *)
(* Activity lists the detector is applied to                           *)
(* ------------------------------------------------------------------ *)
\* transaction_id is unique: an activity carries its position as its id.
WithIds(list) == [i \in 1..Len(list) |-> [list[i] EXCEPT !.tx_id = i]]

\* Short lists, every combination: two wallets, both tokens, all kinds,
\* two seconds of one minute and the first second of the next.
SmallActs ==
    {Row(w, tok, ty, 1500, ts, 0) :
        w \in {1, 2}, tok \in Tokens, ty \in ActivityTypes,
        ts \in {0, 59, 60}}

SmallLists ==
    {WithIds(l) : l \in UNION {[1..n -> SmallActs] : n \in 0..MaxLen}}

\* Long lists, as runs of like activities: run r holds count activities of
\* one kind, by one wallet ("same") or by count wallets ("distinct"), all
\* within one minute.  With alt, even runs trade the other token.
RunSet == [type : ActivityTypes, count : 1..MaxRun, mode : {"same", "distinct"}]

RunSeqs == UNION {[1..n -> RunSet] : n \in 0..MaxRuns}

RunActivity(run, r, i, alt) ==
    Row(IF run.mode = "same" THEN r ELSE i + r - 1,
        IF alt /\ r % 2 = 0 THEN "LINK" ELSE "UNI",
        run.type, 1000 + 100 * i + r, 10 * (r % 5) + i, 0)

RunList(runs, alt) ==
    LET f[r \in 0..Len(runs)] ==
            IF r = 0 THEN <<>>
            ELSE f[r - 1] \o [i \in 1..runs[r].count |->
                                  RunActivity(runs[r], r, i, alt)]
    IN WithIds(f[Len(runs)])

RunLists == {RunList(rs, alt) : rs \in RunSeqs, alt \in BOOLEAN}

DetectInputs == SmallLists \cup RunLists

(* ------------------------------------------------------------------ *)
(* The detector applied to one activity list                           *)
(* ------------------------------------------------------------------ *)
NoHist ==
    [sleeps |-> 0, fetch_conn_failed |-> FALSE, write_attempts |-> 0,
     last_result |-> -1, rows_before |-> 0, last_start |-> 0,
     scan_errors |-> 0, active |-> 0, op_failed |-> FALSE,
     prev_conn_failed |-> FALSE,
     prev_raised |-> FALSE, prev_sleeps |-> 0, gap |-> 0,
     analyses |-> <<>>]

InitDetect ==
    /\ pc = "input"
    /\ recent_activities \in DetectInputs
    /\ token_activities = <<>>
    /\ coordination_alerts = <<>>
    /\ wallet_correlations = <<>>
    /\ whale_activity_history = <<>>
    /\ token_price_history = <<>>
    /\ scan_count = 0
    /\ total_alerts = 0
    /\ whale_transactions = <<>>
    /\ pump_dump_alerts = <<>>
    /\ now = 0
    /\ conn_open = 0
    /\ alert_idx = 0
    /\ alerts_generated = 0
    /\ exc = "none"
    /\ hist = NoHist

Detect ==
    /\ pc = "input"
    /\ pc' = "detected"
    /\ token_activities' =
           IF recent_activities = <<>> THEN <<>>
           ELSE GroupActivities(recent_activities)
    /\ coordination_alerts' = detect_coordination_patterns(recent_activities)
    /\ wallet_correlations' = analyze_wallet_correlations(recent_activities)
    /\ UNCHANGED <<scan_count, total_alerts, whale_transactions,
                   pump_dump_alerts, now, conn_open, recent_activities,
                   whale_activity_history, token_price_history,
                   alert_idx, alerts_generated, exc, hist>>

NextDetect == Detect

SpecDetect == InitDetect /\ [][NextDetect]_vars

(* ------------------------------------------------------------------ *)
(* The correlation analysis applied to one activity list               *)
(* ------------------------------------------------------------------ *)
\* Short lists, every combination: two wallets, both tokens, and three
\* times: 0 and 300 are within five minutes of each other, 0 and 301 not.
CorrActs ==
    {Row(w, tok, "buy", 1500, ts, 0) :
        w \in {1, 2}, tok \in Tokens, ts \in {0, 300, 301}}

CorrLists ==
    {WithIds(l) : l \in UNION {[1..n -> CorrActs] : n \in 0..MaxCorrLen}}

\* Wallet 1 trades near times 0..near-1 and far times from 5000 on,
\* alternating the tokens; wallet 2 trades UNI at 0 and LINK at 10000.  The
\* match count is near and the longer time list has near + far entries.
ScoreList(near, far) ==
    WithIds([i \in 1..(near + far) |->
                Row(1, IF i % 2 = 1 THEN "UNI" ELSE "LINK", "buy", 1500,
                    IF i <= near THEN i - 1 ELSE 5000 + i, 0)]
            \o <<Row(2, "UNI", "sell", 1500, 0, 0),
                 Row(2, "LINK", "sell", 1500, 10000, 0)>>)

ScoreLists == {ScoreList(near, far) : near \in 2..MaxNear, far \in 0..MaxFar}

\* Several wallets: wallet w trades each token of toks[w] twice, at time
\* at[w].
WalletBlock(w, toks, t) ==
    (IF "UNI" \in toks
     THEN <<Row(w, "UNI", "buy", 1500, t, 0), Row(w, "UNI", "sell", 1500, t, 0)>>
     ELSE <<>>)
    \o
    (IF "LINK" \in toks
     THEN <<Row(w, "LINK", "buy", 1500, t, 0), Row(w, "LINK", "sell", 1500, t, 0)>>
     ELSE <<>>)

WalletSetList(toks, at) ==
    LET f[w \in 0..MaxWallets] ==
            IF w = 0 THEN <<>> ELSE f[w - 1] \o WalletBlock(w, toks[w], at[w])
    IN WithIds(f[MaxWallets])

WalletSetLists ==
    {WalletSetList(toks, at) :
        toks \in [1..MaxWallets -> (SUBSET Tokens) \ {{}}],
        at \in [1..MaxWallets -> {0, 300, 301}]}

TwoTokenRunLists == {RunList(rs, TRUE) : rs \in RunSeqs}

InitCorr ==
    /\ pc = "input"
    /\ \/ recent_activities \in CorrLists
       \/ recent_activities \in ScoreLists
       \/ recent_activities \in WalletSetLists
       \/ recent_activities \in TwoTokenRunLists
    /\ token_activities = <<>>
    /\ coordination_alerts = <<>>
    /\ wallet_correlations = <<>>
    /\ whale_activity_history = <<>>
    /\ token_price_history = <<>>
    /\ scan_count = 0
    /\ total_alerts = 0
    /\ whale_transactions = <<>>
    /\ pump_dump_alerts = <<>>
    /\ now = 0
    /\ conn_open = 0
    /\ alert_idx = 0
    /\ alerts_generated = 0
    /\ exc = "none"
    /\ hist = NoHist

SpecCorr == InitCorr /\ [][NextDetect]_vars


(* ------------------------------------------------------------------ *)
(* The store operations                                                *)
(* ------------------------------------------------------------------ *)
\* Variant: the connection error is not caught.
get_database_connection_raises(reachable) ==
    IF reachable THEN "conn" ELSE "raise"
\* get_database_connection: psycopg.connect, or None when it raises.
get_database_connection(reachable) ==
    IF reachable THEN "conn" ELSE "None"

\* Variant: the connection is closed on the success path only.
ConnAfterLeakOnError(outcome, c) == IF outcome = "ok" THEN c - 1 ELSE c
\* The connection count after the try/finally of a store operation ended
\* with outcome "ok", "fail" (an Exception, caught) or "interrupt" (a
\* KeyboardInterrupt passing through): finally: conn.close() in each.
ConnAfter(outcome, c) == c - 1

\* ORDER BY block_timestamp DESC, rows of equal timestamp in table order.
InsertDesc(sorted, row) ==
    LET k == Cardinality({i \in 1..Len(sorted) :
                             sorted[i].timestamp >= row.timestamp})
    IN SubSeq(sorted, 1, k) \o <<row>> \o SubSeq(sorted, k + 1, Len(sorted))

OrderByTimestampDesc(rows) ==
    LET f[i \in 0..Len(rows)] ==
            IF i = 0 THEN <<>> ELSE InsertDesc(f[i - 1], rows[i])
    IN f[Len(rows)]

IsRecentWhale(row, cutoff_time) ==
    /\ row.timestamp > cutoff_time
    /\ row.usd > WHALE_THRESHOLD

\* The recent-activity SELECT at time t.
QueryRecent(table, t) ==
    LET cutoff_time == t - 60 * TIME_WINDOW_MINUTES
        keep(row) == IsRecentWhale(row, cutoff_time)
    IN OrderByTimestampDesc(SelectSeq(table, keep))

\* get_recent_whale_activity once connected: the rows, or [] on an error.
get_recent_whale_activity(outcome, table, t) ==
    IF outcome = "ok" THEN QueryRecent(table, t) ELSE <<>>

\* The row the INSERT of save_alert_to_database adds.
AlertRow(id, alert_data) ==
    [id |-> id, alert_type |-> alert_data.type,
     token_symbol |-> alert_data.token,
     whale_count |-> alert_data.whale_count,
     total_volume |-> alert_data.total_volume,
     confidence_score |-> alert_data.confidence,
     alert_data |-> alert_data]

\* Variant: a failed save ends the for-loop.
NextAlertIdxAbortOnFailure(saved, idx, n) == IF saved THEN idx + 1 ELSE n + 1
\* The for-loop over coordination_alerts after one save returned.
NextAlertIdx(saved, idx, n) == idx + 1

(* ------------------------------------------------------------------ *)
(* run_monitoring_loop                                                 *)
(* ------------------------------------------------------------------ *)
Cancellations == {"KeyboardInterrupt", "CancelledError"}

\* Variant: no except Exception clause.
LoopHandlerNoCatch(e) == "stopped"
\* Variant: except Exception goes straight on to the next scan.
LoopHandlerNoBackoff(e) ==
    IF e = "Exception" THEN "loop_top" ELSE "stopped"
\* Where an exception raised inside the try of the while loop leads:
\* except KeyboardInterrupt: break; except Exception: sleep and go on;
\* anything else leaves the coroutine.
LoopHandler(e) ==
    CASE e = "KeyboardInterrupt" -> "stopped"
      [] e = "Exception" -> "err_sleep"
      [] OTHER -> "stopped"

\* The positions inside the try block, lines 383-397.
InTry == {"loop_top", "fetch_connect", "fetch_query", "analyze",
          "save_connect", "save_insert", "report", "sleep"}
\* The positions at an await.
AtAwait == {"sleep", "err_sleep"}
\* The positions holding a connection.
InStoreOp == {"whales_query", "fetch_query", "save_insert"}

\* The activities the store may hold: none; five buys and four sells of one
\* token in one minute, recent enough to stay in the window; the same with
\* the sells on the other token, by four of the buying wallets; five buys
\* about to leave the window; three buys and a transfer below the whale threshold.
Shift(list, dt) == [i \in 1..Len(list) |-> [list[i] EXCEPT !.timestamp = @ + dt]]

StoreScenarios ==
    { <<>>,
      Shift(RunList(<<[type |-> "buy", count |-> 5, mode |-> "distinct"],
                      [type |-> "sell", count |-> 4, mode |-> "distinct"]>>,
                    FALSE), 10 * SCAN_INTERVAL),
      Shift(RunList(<<[type |-> "buy", count |-> 5, mode |-> "distinct"],
                      [type |-> "sell", count |-> 4, mode |-> "distinct"]>>,
                    TRUE), 10 * SCAN_INTERVAL),
      RunList(<<[type |-> "buy", count |-> 5, mode |-> "distinct"]>>, FALSE),
      Shift(RunList(<<[type |-> "buy", count |-> 3, mode |-> "same"]>>, FALSE),
            10 * SCAN_INTERVAL)
          \o <<Row(6, "LINK", "transfer", WHALE_THRESHOLD, 10 * SCAN_INTERVAL, 4)>> }

Init ==
    /\ pc = "start"
    /\ scan_count = 0
    /\ total_alerts = 0
    /\ whale_transactions \in StoreScenarios
    /\ pump_dump_alerts = <<>>
    /\ now = 60 * TIME_WINDOW_MINUTES
    /\ conn_open = 0
    /\ recent_activities = <<>>
    /\ token_activities = <<>>
    /\ coordination_alerts = <<>>
    /\ wallet_correlations = <<>>
    /\ whale_activity_history = <<>>
    /\ token_price_history = <<>>
    /\ alert_idx = 0
    /\ alerts_generated = 0
    /\ exc = "none"
    /\ hist = NoHist

locals == <<recent_activities, token_activities, coordination_alerts,
            wallet_correlations, alert_idx, alerts_generated>>
histories == <<whale_activity_history, token_price_history>>
counters == <<scan_count, total_alerts>>
tables == <<whale_transactions, pump_dump_alerts>>

\* Variant: self.total_alerts = alerts_generated
SetAlerts(total, generated) == generated
\* self.total_alerts += alerts_generated
AddAlerts(total, generated) == total + generated

\* An exception e leaves monitor_whale_activity inside the try.
Raised(e, h) ==
    /\ exc' = e
    /\ pc' = LoopHandler(e)
    /\ hist' = [h EXCEPT !.active = 0,
                         !.scan_errors = IF e = "Exception" THEN @ + 1 ELSE @]

\* monitor_whale_activity returns 0 at line 308; the summary is printed.
ReturnsZero(h) ==
    /\ pc' = "sleep"
    /\ hist' = [h EXCEPT !.active = 0, !.last_result = 0]
    /\ exc' = exc

\* Line 379, get_database_whales: connect.
WhalesConnect ==
    /\ pc = "start"
    /\ \E reachable \in BOOLEAN :
           LET r == get_database_connection(reachable) IN
           /\ conn_open' = IF r = "conn" THEN conn_open + 1 ELSE conn_open
           /\ pc' = CASE r = "conn" -> "whales_query"
                      [] r = "None" -> "loop_top"
                      [] OTHER -> "stopped"
           /\ exc' = IF r = "raise" THEN "Exception" ELSE exc
    /\ UNCHANGED <<histories, counters, tables, now, locals, hist>>

\* get_database_whales: the query, its except and its finally.
WhalesQuery ==
    /\ pc = "whales_query"
    /\ \E outcome \in {"ok", "fail"} :
           conn_open' = ConnAfter(outcome, conn_open)
    /\ pc' = "loop_top"
    /\ UNCHANGED <<histories, counters, tables, now, locals, exc, hist>>

\* Lines 382-387 and 299-304: a scan starts.
BeginScan ==
    /\ pc = "loop_top"
    /\ scan_count < MaxScans
    /\ scan_count' = scan_count + 1
    /\ pc' = "fetch_connect"
    /\ exc' = "none"
    /\ recent_activities' = <<>>
    /\ token_activities' = <<>>
    /\ coordination_alerts' = <<>>
    /\ wallet_correlations' = <<>>
    /\ alert_idx' = 0
    /\ alerts_generated' = 0
    /\ hist' = [sleeps |-> 0, fetch_conn_failed |-> FALSE,
                write_attempts |-> 0, last_result |-> -1,
                rows_before |-> Len(pump_dump_alerts), last_start |-> now,
                scan_errors |-> hist.scan_errors, active |-> hist.active + 1,
                op_failed |-> FALSE,
                prev_conn_failed |-> hist.fetch_conn_failed,
                prev_raised |-> (exc = "Exception"),
                prev_sleeps |-> hist.sleeps,
                gap |-> now - hist.last_start,
                analyses |-> hist.analyses]
    /\ UNCHANGED <<histories, total_alerts, tables, now, conn_open>>

\* get_recent_whale_activity: connect.
FetchConnect ==
    /\ pc = "fetch_connect"
    /\ \E reachable \in BOOLEAN :
           LET r == get_database_connection(reachable) IN
           CASE r = "conn" ->
                    /\ conn_open' = conn_open + 1
                    /\ pc' = "fetch_query"
                    /\ UNCHANGED <<exc, hist>>
             [] r = "None" ->
                    /\ ReturnsZero([hist EXCEPT !.fetch_conn_failed = TRUE])
                    /\ UNCHANGED conn_open
             [] OTHER ->
                    /\ Raised("Exception",
                              [hist EXCEPT !.fetch_conn_failed = TRUE])
                    /\ UNCHANGED conn_open
    /\ UNCHANGED <<histories, counters, tables, now, locals>>

\* get_recent_whale_activity: the query, its except and its finally; then
\* lines 306-310 of monitor_whale_activity.
FetchQuery ==
    /\ pc = "fetch_query"
    /\ \E outcome \in {"ok", "fail"} :
           /\ conn_open' = ConnAfter(outcome, conn_open)
           /\ recent_activities' =
                  get_recent_whale_activity(outcome, whale_transactions, now)
           /\ IF recent_activities' = <<>>
              THEN ReturnsZero([hist EXCEPT !.op_failed = (outcome = "fail")])
              ELSE /\ pc' = "analyze"
                   /\ UNCHANGED <<exc, hist>>
    /\ UNCHANGED <<histories, counters, tables, now, token_activities,
                   coordination_alerts, wallet_correlations, alert_idx,
                   alerts_generated>>

\* Lines 312-338: the summary, the detector, the start of the alert loop.
AnalyzeOn(activities) ==
    /\ pc = "analyze"
    /\ token_activities' = GroupActivities(activities)
    /\ coordination_alerts' = detect_coordination_patterns(activities)
    /\ wallet_correlations' = analyze_wallet_correlations(activities)
    /\ alerts_generated' = 0
    /\ alert_idx' = 1
    /\ pc' = IF coordination_alerts' # <<>> THEN "save_connect" ELSE "report"
    /\ hist' = [hist EXCEPT !.analyses =
                    Append(@, [activities |-> recent_activities,
                               alerts |-> coordination_alerts',
                               correlations |-> wallet_correlations',
                               scan |-> scan_count,
                               total |-> total_alerts,
                               clock |-> now])]
    /\ UNCHANGED <<histories, counters, tables, now, conn_open, recent_activities, exc>>

\* Variant: the analysis looks only at activities of the last five minutes
\* of the wall clock.
AnalyzeFresh ==
    AnalyzeOn(SelectSeq(recent_activities,
                        LAMBDA a : a.timestamp > now - 5 * 60))
\* coordination_alerts = self.detect_coordination_patterns(recent_activities)
\* wallet_correlations = self.analyze_wallet_correlations(recent_activities)
Analyze == AnalyzeOn(recent_activities)

\* After save_alert_to_database returned saved: lines 347-350 and the next
\* turn of the for-loop.
AlertLoopStep(saved) ==
    /\ alerts_generated' = IF saved THEN alerts_generated + 1 ELSE alerts_generated
    /\ alert_idx' = NextAlertIdx(saved, alert_idx, Len(coordination_alerts))
    /\ pc' = IF alert_idx' > Len(coordination_alerts)
             THEN "report" ELSE "save_connect"

\* Lines 341-347 and save_alert_to_database: connect.
SaveConnect ==
    /\ pc = "save_connect"
    /\ \E reachable \in BOOLEAN :
           LET r == get_database_connection(reachable) IN
           CASE r = "conn" ->
                    /\ conn_open' = conn_open + 1
                    /\ pc' = "save_insert"
                    /\ hist' = [hist EXCEPT !.write_attempts = @ + 1]
                    /\ UNCHANGED <<exc, alert_idx, alerts_generated>>
             [] r = "None" ->
                    /\ AlertLoopStep(FALSE)
                    /\ hist' = [hist EXCEPT !.write_attempts = @ + 1]
                    /\ UNCHANGED <<conn_open, exc>>
             [] OTHER ->
                    /\ Raised("Exception",
                              [hist EXCEPT !.write_attempts = @ + 1])
                    /\ UNCHANGED <<conn_open, alert_idx, alerts_generated>>
    /\ UNCHANGED <<histories, counters, tables, now, recent_activities,
                   token_activities, coordination_alerts, wallet_correlations>>

\* save_alert_to_database: CREATE TABLE, INSERT, commit; its except and its
\* finally.
SaveInsert ==
    /\ pc = "save_insert"
    /\ \E outcome \in {"ok", "fail"} :
           /\ conn_open' = ConnAfter(outcome, conn_open)
           /\ pump_dump_alerts' =
                  IF outcome = "ok"
                  THEN Append(pump_dump_alerts,
                              AlertRow(Len(pump_dump_alerts) + 1,
                                       coordination_alerts[alert_idx]))
                  ELSE pump_dump_alerts
           /\ AlertLoopStep(outcome = "ok")
           /\ hist' = [hist EXCEPT !.op_failed = @ \/ (outcome = "fail")]
    /\ UNCHANGED <<histories, counters, whale_transactions, now, recent_activities,
                   token_activities, coordination_alerts, wallet_correlations,
                   exc>>

\* Lines 352-365 and 390-394: the correlations are printed, total_alerts is
\* raised, monitor_whale_activity returns and the summary is printed.
Report ==
    /\ pc = "report"
    /\ total_alerts' = AddAlerts(total_alerts, alerts_generated)
    /\ hist' = [hist EXCEPT !.last_result = alerts_generated, !.active = 0]
    /\ pc' = "sleep"
    /\ UNCHANGED <<histories, scan_count, tables, now, conn_open, locals, exc>>

\* A statement of monitor_whale_activity outside the store operations
\* raises an Exception (a malformed record, a failing print).
ScanRaises ==
    /\ pc \in {"analyze", "save_connect", "report"}
    /\ Raised("Exception", hist)
    /\ UNCHANGED <<histories, counters, tables, now, conn_open, locals>>

\* Line 397: await asyncio.sleep(SCAN_INTERVAL) returns.
Sleep ==
    /\ pc = "sleep"
    /\ now' = now + SCAN_INTERVAL
    /\ hist' = [hist EXCEPT !.sleeps = @ + 1]
    /\ pc' = "loop_top"
    /\ UNCHANGED <<histories, counters, tables, conn_open, locals, exc>>

\* Lines 403-405: the handler's await asyncio.sleep(SCAN_INTERVAL) returns.
ErrSleep ==
    /\ pc = "err_sleep"
    /\ now' = now + SCAN_INTERVAL
    /\ hist' = [hist EXCEPT !.sleeps = @ + 1]
    /\ pc' = "loop_top"
    /\ UNCHANGED <<histories, counters, tables, conn_open, locals, exc>>

\* The operator interrupts the process: a KeyboardInterrupt is raised at the
\* current statement, or, at an await, the task is cancelled.  Inside the
\* try the loop's handlers decide; elsewhere it reaches main (lines 411-415).
Interrupt ==
    /\ pc # "stopped"
    /\ \E e \in Cancellations :
           /\ e = "CancelledError" => pc \in AtAwait
           /\ exc' = e
           /\ pc' = IF pc \in InTry THEN LoopHandler(e) ELSE "stopped"
    /\ conn_open' = IF pc \in InStoreOp
                    THEN ConnAfter("interrupt", conn_open) ELSE conn_open
    /\ hist' = [hist EXCEPT !.active = 0]
    /\ UNCHANGED <<histories, counters, tables, now, locals>>

Next ==
    \/ WhalesConnect
    \/ WhalesQuery
    \/ BeginScan
    \/ FetchConnect
    \/ FetchQuery
    \/ Analyze
    \/ SaveConnect
    \/ SaveInsert
    \/ Report
    \/ ScanRaises
    \/ Sleep
    \/ ErrSleep
    \/ Interrupt

Spec == Init /\ [][Next]_vars

(* ------------------------------------------------------------------ *)
(* Statements about the scan loop                                      *)
(* ------------------------------------------------------------------ *)
\* C1: the loop reaches its terminal state only by a cancellation, never by
\* an exception of a scan step, whatever scans came before; and once a
\* cancellation is delivered the loop is stopped, with no further scan.
C1_OnlyCancellationStops ==
    /\ pc = "stopped" => exc \in Cancellations
    /\ exc \in Cancellations => pc = "stopped"
    /\ exc = "Exception" => pc \in {"err_sleep", "loop_top"}

\* The loop was stopped after at least two scans, one of which raised.
C1_Witness ==
    /\ pc = "stopped"
    /\ scan_count >= 2
    /\ hist.scan_errors >= 1

\* C2: a scan that finds the store unreachable returns 0, raises nothing and
\* attempts no alert write; the loop then sleeps SCAN_INTERVAL once and the
\* next scan starts.
C2_UnreachableStoreScan ==
    /\ hist.fetch_conn_failed =>
           /\ hist.last_result = 0
           /\ hist.write_attempts = 0
           /\ Len(pump_dump_alerts) = hist.rows_before
           /\ exc # "Exception"
           /\ pc \in {"sleep", "loop_top", "stopped"}
           /\ pc = "stopped" => exc \in Cancellations
           /\ pc = "loop_top" =>
                  /\ hist.sleeps = 1
                  /\ now = hist.last_start + SCAN_INTERVAL
    /\ hist.prev_conn_failed =>
           /\ ~hist.prev_raised
           /\ hist.prev_sleeps = 1
           /\ hist.gap = SCAN_INTERVAL

\* A scan has started after a scan that found the store unreachable.
C2_Witness ==
    /\ hist.prev_conn_failed
    /\ pc = "fetch_connect"
    /\ scan_count >= 2

\* C3 as stated: no two rows of the alert table are the same alert (kind,
\* token and bucket minute).
C3_AlertWrittenOnce ==
    \A i, j \in 1..Len(pump_dump_alerts) :
        ( /\ pump_dump_alerts[i].alert_type = pump_dump_alerts[j].alert_type
          /\ pump_dump_alerts[i].token_symbol = pump_dump_alerts[j].token_symbol
          /\ pump_dump_alerts[i].alert_data.time = pump_dump_alerts[j].alert_data.time )
            => i = j

\* C4: a scan starts only when none is in progress, and from the second
\* scan on exactly one suspension, of SCAN_INTERVAL, lies between the start
\* of the previous scan and this one, whether the previous scan raised or not.
C4_OneSuspensionBetweenScans ==
    /\ hist.active <= 1
    /\ hist.active = 1 <=> pc \in {"fetch_connect", "fetch_query", "analyze",
                                    "save_connect", "save_insert", "report"}
    /\ scan_count >= 2 =>
           /\ hist.prev_sleeps = 1
           /\ hist.gap = SCAN_INTERVAL
    /\ pc = "loop_top" /\ scan_count >= 1 => hist.sleeps = 1

\* A scan has started after a scan that raised.
C4_Witness ==
    /\ scan_count >= 2
    /\ hist.prev_raised
    /\ pc = "fetch_connect"

\* C5: a failed save does not end the alert loop: at each turn every earlier
\* alert has been attempted, and a scan that returns has attempted every
\* alert and returns the number of rows it committed.
C5_FailedSaveDoesNotAbort ==
    /\ pc = "save_connect" => hist.write_attempts = alert_idx - 1
    /\ (hist.last_result # -1 /\ coordination_alerts # <<>>) =>
           /\ hist.write_attempts = Len(coordination_alerts)
           /\ hist.last_result = Len(pump_dump_alerts) - hist.rows_before

\* A scan of two alerts returned 1: the first save failed with the
\* connection open, the second was attempted and committed.
C5_Witness ==
    /\ hist.last_result = 1
    /\ hist.op_failed
    /\ Len(coordination_alerts) = 2
    /\ Len(pump_dump_alerts) = hist.rows_before + 1
    /\ pump_dump_alerts[Len(pump_dump_alerts)].alert_type
           = coordination_alerts[2].type

\* C6: a connection is open exactly while one store operation runs: never
\* two, and none at an await or anywhere else between operations, however
\* the operation ended.
C6_ConnectionPerOperation ==
    /\ conn_open \in {0, 1}
    /\ conn_open = 1 <=> pc \in InStoreOp
    /\ pc \in AtAwait => conn_open = 0

\* The loop is suspended after a scan in which a store operation failed
\* with its connection open.
C6_Witness ==
    /\ pc \in AtAwait
    /\ hist.op_failed
    /\ conn_open = 0

(* ------------------------------------------------------------------ *)
(* Statements about the detector                                       *)
(* ------------------------------------------------------------------ *)
\* The (token index, bucket index) pairs of token_activities.
BucketSlots ==
    UNION {{<<t, b>> : b \in 1..Len(token_activities[t].val)} :
              t \in 1..Len(token_activities)}

SlotToken(s) == token_activities[s[1]].key
SlotTime(s) == token_activities[s[1]].val[s[2]].key
SlotActs(s) == token_activities[s[1]].val[s[2]].val

\* The slots holding an entry for transaction id.
SlotsOf(id) ==
    {s \in BucketSlots : \E k \in 1..Len(SlotActs(s)) : SlotActs(s)[k].tx_id = id}

Minute(timestamp) == timestamp \div 60

\* The USD amounts of the input activities with the given ids, added up.
RECURSIVE UsdOfIds(_)
UsdOfIds(S) ==
    IF S = {} THEN 0
    ELSE LET x == CHOOSE y \in S : TRUE
         IN recent_activities[x].usd + UsdOfIds(S \ {x})

SlotIds(s, kinds) ==
    {SlotActs(s)[k].tx_id : k \in {j \in 1..Len(SlotActs(s)) : SlotActs(s)[j].type \in kinds}}

SlotWallets(s, kinds) ==
    {SlotActs(s)[k].wallet : k \in {j \in 1..Len(SlotActs(s)) : SlotActs(s)[j].type \in kinds}}

\* The alerts of one kind raised for a slot's (token, time bucket).
SlotAlerts(s, kind) ==
    {k \in 1..Len(coordination_alerts) :
        /\ coordination_alerts[k].type = kind
        /\ coordination_alerts[k].token = SlotToken(s)
        /\ coordination_alerts[k].time = SlotTime(s)}

\* conf = min(count / threshold, 1.0)
IsClamped(conf, count, threshold) ==
    IF count >= threshold THEN conf[1] = conf[2]
    ELSE conf[1] * threshold = count * conf[2]

BuyKinds == {"buy", "transfer"}
SellKinds == {"sell"}

\* C7: every activity of the input lands in exactly one (token, minute)
\* bucket, unchanged; the buckets hold nothing else; and two activities
\* share a bucket exactly when they have the same token and the same minute.
C7_BucketsPartitionInput ==
    pc = "detected" =>
        /\ \A i \in 1..Len(recent_activities) :
               /\ Cardinality(SlotsOf(i)) = 1
               /\ \A s \in SlotsOf(i) :
                      /\ SlotToken(s) = recent_activities[i].token
                      /\ SlotTime(s) = 60 * Minute(recent_activities[i].timestamp)
                      /\ Cardinality({k \in 1..Len(SlotActs(s)) :
                                         SlotActs(s)[k].tx_id = i}) = 1
                      /\ \A k \in 1..Len(SlotActs(s)) :
                             SlotActs(s)[k].tx_id = i =>
                                 SlotActs(s)[k] = BucketEntry(recent_activities[i])
        /\ \A s \in BucketSlots : \A k \in 1..Len(SlotActs(s)) :
               SlotActs(s)[k].tx_id \in 1..Len(recent_activities)
        /\ \A i, j \in 1..Len(recent_activities) :
               (SlotsOf(i) = SlotsOf(j)) <=>
                   /\ recent_activities[i].token = recent_activities[j].token
                   /\ Minute(recent_activities[i].timestamp)
                          = Minute(recent_activities[j].timestamp)

\* Two activities of one minute and different seconds share a bucket, and a
\* third bucket-mate of another minute or token does not.
C7_Witness ==
    /\ pc = "detected"
    /\ \E i, j \in 1..Len(recent_activities) :
           /\ recent_activities[i].timestamp # recent_activities[j].timestamp
           /\ SlotsOf(i) = SlotsOf(j)
    /\ \E i, j \in 1..Len(recent_activities) : SlotsOf(i) # SlotsOf(j)

\* C8: for a bucket of at least 3 activities a POTENTIAL_PUMP is raised iff
\* it holds at least 5 buy-like activities; its whale_count is the number of
\* distinct wallets among them, its volume their USD sum, and its confidence
\* min(whale_count / 5, 1.0).
C8_PumpIffFiveBuyLike ==
    pc = "detected" =>
        \A s \in BucketSlots :
            Len(SlotActs(s)) >= 3 =>
                /\ (SlotAlerts(s, "POTENTIAL_PUMP") # {})
                       <=> (Cardinality(SlotIds(s, BuyKinds)) >= 5)
                /\ \A k \in SlotAlerts(s, "POTENTIAL_PUMP") :
                       LET a == coordination_alerts[k] IN
                       /\ a.whale_count = Cardinality(SlotWallets(s, BuyKinds))
                       /\ a.total_volume = UsdOfIds(SlotIds(s, BuyKinds))
                       /\ IsClamped(a.confidence, a.whale_count, 5)
                       /\ (a.whale_count = 5 => a.confidence = One)

\* Exactly five buys by five wallets give whale_count 5 and confidence 1,
\* and some list gives six wallets and still confidence 1.
C8_Witness ==
    /\ pc = "detected"
    /\ \E s \in BucketSlots :
           /\ Cardinality(SlotIds(s, BuyKinds)) = 5
           /\ Cardinality(SlotWallets(s, BuyKinds)) = 5
           /\ \E k \in SlotAlerts(s, "POTENTIAL_PUMP") :
                  /\ coordination_alerts[k].whale_count = 5
                  /\ coordination_alerts[k].confidence = One

\* C9: a bucket with fewer than 4 sells raises no POTENTIAL_DUMP, however
\* many buy-like activities it holds; a bucket with at least 4 sells raises
\* one whose whale_count is the number of distinct selling wallets and whose
\* confidence is min(whale_count / 4, 1.0).
C9_DumpNeedsFourSells ==
    pc = "detected" =>
        \A s \in BucketSlots :
            /\ Cardinality(SlotIds(s, SellKinds)) < 4
                   => SlotAlerts(s, "POTENTIAL_DUMP") = {}
            /\ Cardinality(SlotIds(s, SellKinds)) >= 4
                   => /\ SlotAlerts(s, "POTENTIAL_DUMP") # {}
                      /\ \A k \in SlotAlerts(s, "POTENTIAL_DUMP") :
                             LET a == coordination_alerts[k] IN
                             /\ a.whale_count = Cardinality(SlotWallets(s, SellKinds))
                             /\ IsClamped(a.confidence, a.whale_count, 4)

\* Four buys and three sells in one bucket: past the coordination threshold
\* and no dump; and elsewhere a bucket of four sells with its dump.
C9_Witness ==
    /\ pc = "detected"
    /\ \E s \in BucketSlots :
           /\ Cardinality(SlotIds(s, BuyKinds)) = 4
           /\ Cardinality(SlotIds(s, SellKinds)) = 3
           /\ Cardinality(SlotWallets(s, SellKinds)) = 3
           /\ Len(SlotActs(s)) >= COORDINATION_THRESHOLD
           /\ SlotAlerts(s, "POTENTIAL_DUMP") = {}

\* C10: the two tests are independent.  For every bucket the number of
\* POTENTIAL_PUMP alerts is 1 or 0 as its buy-like activities number at
\* least 5 or not, and the alert lists exactly those; the number of
\* POTENTIAL_DUMP alerts is 1 or 0 as its sells number at least 4 or not,
\* and the alert lists exactly those; every alert belongs to a bucket.
C10_TestsIndependent ==
    pc = "detected" =>
        /\ \A s \in BucketSlots :
               /\ Cardinality(SlotAlerts(s, "POTENTIAL_PUMP"))
                      = (IF Cardinality(SlotIds(s, BuyKinds)) >= 5 THEN 1 ELSE 0)
               /\ Cardinality(SlotAlerts(s, "POTENTIAL_DUMP"))
                      = (IF Cardinality(SlotIds(s, SellKinds)) >= 4 THEN 1 ELSE 0)
               /\ \A k \in SlotAlerts(s, "POTENTIAL_PUMP") :
                      {coordination_alerts[k].activities[n].tx_id :
                          n \in 1..Len(coordination_alerts[k].activities)}
                          = SlotIds(s, BuyKinds)
               /\ \A k \in SlotAlerts(s, "POTENTIAL_DUMP") :
                      {coordination_alerts[k].activities[n].tx_id :
                          n \in 1..Len(coordination_alerts[k].activities)}
                          = SlotIds(s, SellKinds)
        /\ \A k \in 1..Len(coordination_alerts) :
               \E s \in BucketSlots :
                   k \in SlotAlerts(s, coordination_alerts[k].type)

\* One bucket with five buy-like and four sell activities and both alerts.
C10_Witness ==
    /\ pc = "detected"
    /\ \E s \in BucketSlots :
           /\ Cardinality(SlotIds(s, BuyKinds)) >= 5
           /\ Cardinality(SlotIds(s, SellKinds)) >= 4
           /\ Cardinality(SlotAlerts(s, "POTENTIAL_PUMP")) = 1
           /\ Cardinality(SlotAlerts(s, "POTENTIAL_DUMP")) = 1

\* The rapid-buy or rapid-sell threshold of an alert's kind.
KindThreshold(kind) == IF kind = "POTENTIAL_PUMP" THEN rapid_buys ELSE rapid_sells

\* C11 as stated: every alert comes from at least as many distinct wallets
\* as its kind's threshold (5 buying for a pump, 4 selling for a dump).
C11_AlertsFromDistinctWhales ==
    pc = "detected" =>
        \A k \in 1..Len(coordination_alerts) :
            coordination_alerts[k].whale_count
                >= KindThreshold(coordination_alerts[k].type)

(* ------------------------------------------------------------------ *)
(* C20: the coordination gate against the pump and dump tests          *)
(* ------------------------------------------------------------------ *)
\* A detector that applies only the pump and the dump test to a bucket.
UngatedBucketAlerts(token, time_bucket, activities_in_bucket) ==
    LET buy_activities == SelectSeq(activities_in_bucket, IsBuyLike)
        sell_activities == SelectSeq(activities_in_bucket, IsSell)
    IN (IF PumpTest(buy_activities)
        THEN <<MkAlert("POTENTIAL_PUMP", token, time_bucket,
                       buy_activities, rapid_buys)>>
        ELSE <<>>)
       \o
       (IF DumpTest(buy_activities, sell_activities)
        THEN <<MkAlert("POTENTIAL_DUMP", token, time_bucket,
                       sell_activities, rapid_sells)>>
        ELSE <<>>)

UngatedTokenAlerts(token, time_buckets) ==
    LET f[i \in 0..Len(time_buckets)] ==
            IF i = 0 THEN <<>>
            ELSE f[i - 1] \o UngatedBucketAlerts(token, time_buckets[i].key,
                                                 time_buckets[i].val)
    IN f[Len(time_buckets)]

UngatedAlertsOf(ta) ==
    LET f[i \in 0..Len(ta)] ==
            IF i = 0 THEN <<>>
            ELSE f[i - 1] \o UngatedTokenAlerts(ta[i].key, ta[i].val)
    IN f[Len(ta)]

\* C20: with thresholds 3, 5 and 4 the detector's alerts are those of a
\* detector that applies only the pump and dump tests to every bucket.
C20_GateNeverDecides ==
    pc = "detected" =>
        coordination_alerts = UngatedAlertsOf(GroupActivities(recent_activities))

\* Witness: the gate rejects a bucket of fewer than 3 activities while
\* another bucket of the same list raises an alert.
C20_Witness ==
    /\ pc = "detected"
    /\ coordination_alerts # <<>>
    /\ \E s \in BucketSlots : Len(SlotActs(s)) < COORDINATION_THRESHOLD

(* ------------------------------------------------------------------ *)
(* C12 - C16: the correlation analysis                                 *)
(* ------------------------------------------------------------------ *)
\* A quotient between 0 and 1.
InUnitInterval(q) == q[1] >= 0 /\ q[2] > 0 /\ q[1] <= q[2]

\* Number of the input's activities by wallet w on one of the tokens toks.
TimesCount(w, toks) ==
    Cardinality({i \in 1..Len(recent_activities) :
                    /\ recent_activities[i].wallet = w
                    /\ recent_activities[i].token \in toks})

\* The longer of the two time lists of a reported correlation.
LongerTimes(c) ==
    Max(TimesCount(c.wallet_a, c.common_tokens),
        TimesCount(c.wallet_b, c.common_tokens))

\* C12: every confidence and every correlation score lies in [0,1], and is
\* exactly 1 when the raw ratio (wallets over threshold, matches over the
\* longer time list) exceeds 1.
C12_ScoresInUnitInterval ==
    pc = "detected" =>
        /\ \A k \in 1..Len(coordination_alerts) :
               LET a == coordination_alerts[k] IN
               /\ InUnitInterval(a.confidence)
               /\ a.whale_count > KindThreshold(a.type) => a.confidence = One
        /\ \A k \in 1..Len(wallet_correlations) :
               LET c == wallet_correlations[k] IN
               /\ InUnitInterval(c.correlation_score)
               /\ c.time_correlations > LongerTimes(c)
                      => c.correlation_score = One

\* Witness: five wallets against the dump threshold of 4, and a pair of
\* wallets with more matches than activities, both with score 1.
C12_Witness ==
    /\ pc = "detected"
    /\ \E k \in 1..Len(coordination_alerts) :
           /\ coordination_alerts[k].whale_count
                  > KindThreshold(coordination_alerts[k].type)
           /\ coordination_alerts[k].confidence = One
    /\ \E k \in 1..Len(wallet_correlations) :
           /\ wallet_correlations[k].time_correlations
                  > LongerTimes(wallet_correlations[k])
           /\ wallet_correlations[k].correlation_score = One

\* The tokens wallet w trades in the input.
WalletTokens(w) ==
    {recent_activities[i].token :
        i \in {j \in 1..Len(recent_activities) :
                  recent_activities[j].wallet = w}}

SharedTokens(w1, w2) == WalletTokens(w1) \cap WalletTokens(w2)

InputWallets == {recent_activities[i].wallet : i \in 1..Len(recent_activities)}

\* Number of pairs (activity of w1 on toks, activity of w2 on toks) at most
\* 300 seconds apart.
MatchCount(w1, w2, toks) ==
    Cardinality({p \in (1..Len(recent_activities)) \X (1..Len(recent_activities)) :
        /\ recent_activities[p[1]].wallet = w1
        /\ recent_activities[p[2]].wallet = w2
        /\ recent_activities[p[1]].token \in toks
        /\ recent_activities[p[2]].token \in toks
        /\ recent_activities[p[1]].timestamp - recent_activities[p[2]].timestamp
               \in -300..300})

\* The reported correlations of the unordered pair {w1, w2}.
ReportsOf(w1, w2) ==
    {k \in 1..Len(wallet_correlations) :
        {wallet_correlations[k].wallet_a, wallet_correlations[k].wallet_b}
            = {w1, w2}}

\* C13: no correlation is reported for two wallets sharing fewer than 2
\* tokens, none for a wallet with itself, and none twice for the same
\* unordered pair.
C13_OnlyPairsSharingTwoTokens ==
    pc = "detected" =>
        \A k \in 1..Len(wallet_correlations) :
            LET c == wallet_correlations[k] IN
            /\ Cardinality(SharedTokens(c.wallet_a, c.wallet_b)) >= 2
            /\ c.wallet_a # c.wallet_b
            /\ ReportsOf(c.wallet_a, c.wallet_b) = {k}

\* Witness: two wallets share one token and trade it at the same time, four
\* matches, and are not reported; another pair of the same list is.
C13_Witness ==
    /\ pc = "detected"
    /\ wallet_correlations # <<>>
    /\ \E w1, w2 \in InputWallets :
           /\ w1 # w2
           /\ Cardinality(SharedTokens(w1, w2)) = 1
           /\ MatchCount(w1, w2, SharedTokens(w1, w2)) >= 2
           /\ ReportsOf(w1, w2) = {}

\* C14: a pair of distinct wallets sharing at least 2 tokens is reported iff
\* its match count is at least 2; the match count is the number of pairs of
\* one activity of each wallet on a shared token at most 300 seconds apart,
\* whatever the two tokens; the reported time_correlations is that count and
\* the score is min(count / max(|timesA|, |timesB|), 1.0).
C14_ReportedIffTwoMatches ==
    pc = "detected" /\ Len(recent_activities) >= 2 =>
        \A w1, w2 \in InputWallets :
            w1 # w2 /\ Cardinality(SharedTokens(w1, w2)) >= 2 =>
                LET count == MatchCount(w1, w2, SharedTokens(w1, w2)) IN
                /\ ReportsOf(w1, w2) # {} <=> count >= 2
                /\ \A k \in ReportsOf(w1, w2) :
                       LET c == wallet_correlations[k] IN
                       /\ c.common_tokens = SharedTokens(w1, w2)
                       /\ c.time_correlations = count
                       /\ IsClamped(c.correlation_score, count, LongerTimes(c))

\* Two activities of the input, by w1 and w2, exactly 300 seconds apart and
\* on different tokens.
CrossTokenMatchAtWindowEdge(w1, w2) ==
    \E i, j \in 1..Len(recent_activities) :
        /\ recent_activities[i].wallet = w1
        /\ recent_activities[j].wallet = w2
        /\ recent_activities[i].token # recent_activities[j].token
        /\ recent_activities[i].timestamp + 300 = recent_activities[j].timestamp

\* Witness: a reported pair one of whose matches is 300 seconds apart and on
\* two different tokens; and a pair sharing both tokens left out for having
\* fewer than 2 matches.
C14_Witness ==
    /\ pc = "detected"
    /\ \E k \in 1..Len(wallet_correlations) :
           LET c == wallet_correlations[k] IN
           /\ CrossTokenMatchAtWindowEdge(c.wallet_a, c.wallet_b)
           /\ c.time_correlations = MatchCount(c.wallet_a, c.wallet_b,
                                               c.common_tokens)
    /\ \E w1, w2 \in InputWallets :
           /\ w1 # w2
           /\ Cardinality(SharedTokens(w1, w2)) >= 2
           /\ ReportsOf(w1, w2) = {}

\* C15: a reported correlation is HIGH iff its score is strictly above 0.7
\* and MEDIUM otherwise; there is no other level.
C15_HighIffAboveSevenTenths ==
    pc = "detected" =>
        \A k \in 1..Len(wallet_correlations) :
            LET c == wallet_correlations[k] IN
            /\ c.suspicion_level \in {"HIGH", "MEDIUM"}
            /\ c.suspicion_level = "HIGH"
                   <=> 10 * c.correlation_score[1] > 7 * c.correlation_score[2]

\* Witness: seven matches over ten activities, a score of exactly 0.7, is
\* MEDIUM.
C15_Witness ==
    /\ pc = "detected"
    /\ \E k \in 1..Len(wallet_correlations) :
           /\ wallet_correlations[k].correlation_score = <<7, 10>>
           /\ wallet_correlations[k].time_correlations = 7
           /\ wallet_correlations[k].suspicion_level = "MEDIUM"

\* A result without the roles of the two wallets and without the order of
\* the records.
Unordered(correlations) ==
    {[pair |-> {correlations[k].wallet_a, correlations[k].wallet_b},
      common_tokens |-> correlations[k].common_tokens,
      time_correlations |-> correlations[k].time_correlations,
      correlation_score |-> correlations[k].correlation_score,
      suspicion_level |-> correlations[k].suspicion_level] :
        k \in 1..Len(correlations)}

ListPermutations(n) ==
    {p \in [1..n -> 1..n] : \A i, j \in 1..n : p[i] = p[j] => i = j}

\* Exchanges of two neighbours, and the reversal.
Exchanges(n) ==
    {[i \in 1..n |-> IF i = k THEN k + 1 ELSE IF i = k + 1 THEN k ELSE i] :
        k \in 1..(n - 1)}
    \cup {[i \in 1..n |-> n + 1 - i]}

\* The rearrangements of a list that are compared: all of them for a list
\* of up to 4 activities; for a longer list the exchanges of neighbours and
\* the reversal.
Rearrangements(list) ==
    LET n == Len(list) IN
    {[i \in 1..n |-> list[p[i]]] :
        p \in IF n <= 4 THEN ListPermutations(n) ELSE Exchanges(n)}

\* C16: for every permutation of the input the same unordered pairs are
\* reported, each with the same shared tokens, match count, score and
\* level.
C16_OrderOfInputIrrelevant ==
    pc = "detected" =>
        \A l \in Rearrangements(recent_activities) :
            Unordered(analyze_wallet_correlations(l))
                = Unordered(wallet_correlations)

\* Witness: a rearrangement of the input exchanges the roles wallet_a and
\* wallet_b of a reported pair whose wallets have different numbers of
\* activities.
C16_Witness ==
    /\ pc = "detected"
    /\ \E k \in 1..Len(wallet_correlations) :
           LET c == wallet_correlations[k] IN
           /\ TimesCount(c.wallet_a, c.common_tokens)
                  # TimesCount(c.wallet_b, c.common_tokens)
           /\ \E l \in Rearrangements(recent_activities) :
                  \E m \in 1..Len(analyze_wallet_correlations(l)) :
                      /\ analyze_wallet_correlations(l)[m].wallet_a = c.wallet_b
                      /\ analyze_wallet_correlations(l)[m].wallet_b = c.wallet_a

C18_OnlyCountersChange ==
    [][ /\ whale_activity_history' = whale_activity_history
        /\ token_price_history' = token_price_history
        /\ total_alerts' >= total_alerts
        /\ (pc = "loop_top" /\ pc' \in InTry \ {"loop_top"})
               => scan_count' = scan_count + 1
        /\ scan_count' # scan_count
               => (pc = "loop_top" /\ scan_count' = scan_count + 1) ]_vars

\* Witness: a third scan has started after a scan that raised and a scan
\* that saved alerts.
C18_Witness ==
    /\ scan_count >= 3
    /\ hist.scan_errors >= 1
    /\ total_alerts >= 1
    /\ hist.active = 1

\* C19 as stated: between scans and after the loop has stopped,
\* total_alerts is the number of alert rows committed to the store.
C19_TotalIsRowsCommitted ==
    pc \in {"loop_top", "sleep", "err_sleep", "stopped"} =>
        total_alerts = Len(pump_dump_alerts)

====
